---- MODULE Spec2Model ----
(***************************************************************************)
(* Model of MCP_ECOSYSTEM_INTEGRATOR.py (class MCPEcosystemIntegrator) and *)
(* of the data classes MCPConnection and MCPPattern.                       *)
(*                                                                         *)
(* Conventions:                                                            *)
(*  - a Python dict is a sequence of entries in insertion order;           *)
(*  - a pathlib.Path under base_path is the sequence of its segments       *)
(*    below base_path (<< >> is base_path itself);                         *)
(*  - a string the claims take apart (data_flow, a route pattern) is the   *)
(*    sequence of its lexemes, so that splitting it is a computation;      *)
(*  - a JSON document is the record of the Python value handed to          *)
(*    json.dump; tool, resource and prompt descriptors keep their          *)
(*    identifying field (name or uri) only.                                *)
(***************************************************************************)
EXTENDS Integers, Sequences, FiniteSets, TLC

VARIABLES
    mcp_servers,      \* self.mcp_servers: sequence of [id, name, path, capabilities, endpoints]
    mcp_connections,  \* self.mcp_connections
    mcp_patterns,     \* self.mcp_patterns
    dirs,             \* directories that exist (paths below base_path)
    files,            \* the filesystem below base_path: path -> document
    clock,            \* the wall clock read by datetime.now()
    pc,               \* position inside run_integration ("idle": no run in progress)
    status,           \* how this integrator's most recent run_integration ended
    sink_log,         \* the writes attempted by its current / most recent run
    summary,          \* the counts printed by its most recent run, if it completed
    add_result,       \* how the most recent client-side addition ended
    adds,             \* number of client-side additions so far
    http_log          \* the liveness probe: the GET requests served, with their responses

vars == <<mcp_servers, mcp_connections, mcp_patterns, dirs, files, clock,
          pc, status, sink_log, summary, add_result, adds, http_log>>

\* ---------------------------------------------------------------- bounds
MaxClock == 1        \* the clock takes the values 0..MaxClock
MaxAdds == 1         \* client-side additions (connections, registry entries) per behaviour
MaxRequests == 3     \* GET requests the liveness probe serves per behaviour

\* ------------------------------------------------------------ sequences
Range(s) == {s[i] : i \in 1..Len(s)}

\* ------------------------------------------------------ the data classes
\* Positional mix-ups of the constructor's arguments.
MCPConnectionNameFirst(name, source, target, protocol, endpoints, authentication, capabilities) ==
    [name |-> source, source |-> name, target |-> target, protocol |-> protocol,
     endpoints |-> endpoints, authentication |-> authentication,
     capabilities |-> capabilities, status |-> "pending"]

MCPConnectionListsSwapped(name, source, target, protocol, endpoints, authentication, capabilities) ==
    [name |-> name, source |-> source, target |-> target, protocol |-> protocol,
     endpoints |-> capabilities, authentication |-> authentication,
     capabilities |-> endpoints, status |-> "pending"]

\* The default of the status field set to another lifecycle state.
MCPConnectionActive(name, source, target, protocol, endpoints, authentication, capabilities) ==
    [name |-> name, source |-> source, target |-> target, protocol |-> protocol,
     endpoints |-> endpoints, authentication |-> authentication,
     capabilities |-> capabilities, status |-> "active"]

MCPConnection(name, source, target, protocol, endpoints, authentication, capabilities) ==
    [name |-> name, source |-> source, target |-> target, protocol |-> protocol,
     endpoints |-> endpoints, authentication |-> authentication,
     capabilities |-> capabilities, status |-> "pending"]

MCPPattern(name, description, source_components, target_components, data_flow, trigger_events, response_handling) ==
    [name |-> name, description |-> description,
     source_components |-> source_components,
     target_components |-> target_components, data_flow |-> data_flow,
     trigger_events |-> trigger_events, response_handling |-> response_handling]

\* --------------------------------------------------------- __init__ data
activepieces_path == <<"worldwidebro-repositories", "activepieces">>
iza_os_path == <<"iza-os-integrated">>

InitServers ==
    << [id |-> "activepieces", name |-> "Activepieces MCP Server",
        path |-> activepieces_path,
        capabilities |-> <<"workflow_orchestration", "automation", "api_integration">>,
        endpoints |-> <<"/api/v1/flows", "/api/v1/triggers", "/api/v1/actions">>],
       [id |-> "claude_flow", name |-> "Claude Flow MCP Server",
        path |-> iza_os_path \o <<"30-models", "claude-flow">>,
        capabilities |-> <<"ai_orchestration", "conversation_management", "agent_coordination">>,
        endpoints |-> <<"/api/v1/agents", "/api/v1/conversations", "/api/v1/workflows">>],
       [id |-> "iza_os_core", name |-> "IZA OS Core MCP Server",
        path |-> iza_os_path \o <<"00-meta">>,
        capabilities |-> <<"system_orchestration", "configuration_management", "registry_operations">>,
        endpoints |-> <<"/api/v1/config", "/api/v1/registry", "/api/v1/status">>],
       [id |-> "github_integration", name |-> "GitHub Integration MCP Server",
        path |-> <<"worldwidebro-integration">>,
        capabilities |-> <<"repository_management", "code_analysis", "collaboration">>,
        endpoints |-> <<"/api/v1/repos", "/api/v1/analysis", "/api/v1/collaboration">>] >>

\* list(self.mcp_servers.keys()), "in" on the dict, and self.mcp_servers[id]
ServerKeys(servers) == [i \in 1..Len(servers) |-> servers[i].id]
HasServer(servers, id) == \E i \in 1..Len(servers) : servers[i].id = id
ServerOf(servers, id) == servers[CHOOSE i \in 1..Len(servers) : servers[i].id = id]

\* ------------------------------------------------ create_mcp_connections
ConnectionList ==
    << MCPConnection("Activepieces to IZA OS", "activepieces", "iza_os_core", "mcp",
                     <<"/api/v1/flows", "/api/v1/config">>, "api_key",
                     <<"workflow_orchestration", "system_configuration">>),
       MCPConnection("Claude Flow to Activepieces", "claude_flow", "activepieces", "mcp",
                     <<"/api/v1/agents", "/api/v1/flows">>, "oauth2",
                     <<"ai_workflow_integration", "conversation_automation">>),
       MCPConnection("GitHub to IZA OS", "github_integration", "iza_os_core", "mcp",
                     <<"/api/v1/repos", "/api/v1/registry">>, "github_token",
                     <<"repository_sync", "code_analysis">>),
       MCPConnection("IZA OS to Claude Flow", "iza_os_core", "claude_flow", "mcp",
                     <<"/api/v1/config", "/api/v1/agents">>, "internal",
                     <<"system_orchestration", "agent_management">>),
       MCPConnection("Activepieces to GitHub", "activepieces", "github_integration", "mcp",
                     <<"/api/v1/flows", "/api/v1/repos">>, "api_key",
                     <<"workflow_automation", "repository_operations">>) >>

\* --------------------------------------------------- create_mcp_patterns
\* A data_flow string as its lexemes: identifiers, blanks and arrows.
Chain4(a, b, c, d) == <<a, " ", "->", " ", b, " ", "->", " ", c, " ", "->", " ", d>>

PatternList ==
    << MCPPattern("Repository Analysis Workflow",
                  "Automated analysis of new repositories using AI agents",
                  <<"github_integration", "claude_flow">>, <<"iza_os_core", "activepieces">>,
                  Chain4("github", "claude_flow", "iza_os_core", "activepieces"),
                  <<"new_repository", "code_push", "pull_request">>, "async_with_webhook"),
       MCPPattern("AI Agent Orchestration",
                  "Coordinate AI agents across different systems",
                  <<"claude_flow", "iza_os_core">>, <<"activepieces", "github_integration">>,
                  Chain4("claude_flow", "iza_os_core", "activepieces", "github_integration"),
                  <<"agent_request", "workflow_trigger", "system_event">>, "real_time_streaming"),
       MCPPattern("System Health Monitoring",
                  "Monitor and maintain system health across all components",
                  <<"iza_os_core", "activepieces">>, <<"claude_flow", "github_integration">>,
                  Chain4("iza_os_core", "activepieces", "claude_flow", "github_integration"),
                  <<"health_check", "performance_alert", "error_detection">>, "immediate_response"),
       MCPPattern("Workflow Automation Chain",
                  "Chain multiple workflows across different systems",
                  <<"activepieces", "claude_flow">>, <<"github_integration", "iza_os_core">>,
                  Chain4("activepieces", "claude_flow", "github_integration", "iza_os_core"),
                  <<"workflow_start", "task_completion", "user_action">>, "sequential_processing") >>

\* ------------------------------------------------------ lookup tables
\* tools_map, resources_map and prompts_map: one entry per known server.
tools_map ==
    << [key |-> "activepieces",
        value |-> <<[name |-> "create_workflow"], [name |-> "execute_workflow"]>>],
       [key |-> "claude_flow",
        value |-> <<[name |-> "create_agent"], [name |-> "orchestrate_agents"]>>],
       [key |-> "iza_os_core",
        value |-> <<[name |-> "update_config"], [name |-> "register_component"]>>],
       [key |-> "github_integration",
        value |-> <<[name |-> "analyze_repository"], [name |-> "sync_repositories"]>>] >>

resources_map ==
    << [key |-> "activepieces",
        value |-> <<[uri |-> "activepieces://workflows"], [uri |-> "activepieces://triggers"]>>],
       [key |-> "claude_flow",
        value |-> <<[uri |-> "claude-flow://agents"], [uri |-> "claude-flow://conversations"]>>],
       [key |-> "iza_os_core",
        value |-> <<[uri |-> "iza-os://config"], [uri |-> "iza-os://registry"]>>],
       [key |-> "github_integration",
        value |-> <<[uri |-> "github://repositories"], [uri |-> "github://analysis"]>>] >>

prompts_map ==
    << [key |-> "activepieces", value |-> <<[name |-> "workflow_optimizer"]>>],
       [key |-> "claude_flow", value |-> <<[name |-> "agent_coordinator"]>>],
       [key |-> "iza_os_core", value |-> <<[name |-> "system_analyzer"]>>],
       [key |-> "github_integration", value |-> <<[name |-> "repository_insights"]>>] >>

\* Python's None: a value that is no list (its domain is not 1..n).
None == [z \in {0} |-> 0]

\* dict.get(key): the default left out.
DictGetNoDefault(map, key, default) ==
    IF \E i \in 1..Len(map) : map[i].key = key
    THEN map[CHOOSE i \in 1..Len(map) : map[i].key = key].value
    ELSE None

\* dict.get(key, default)
DictGet(map, key, default) ==
    IF \E i \in 1..Len(map) : map[i].key = key
    THEN map[CHOOSE i \in 1..Len(map) : map[i].key = key].value
    ELSE default

get_server_tools(server_name) == DictGet(tools_map, server_name, << >>)
get_server_resources(server_name) == DictGet(resources_map, server_name, << >>)
get_server_prompts(server_name) == DictGet(prompts_map, server_name, << >>)

\* ---------------------------------------------------------- documents
\* The config dict built in the loop body of create_mcp_server_configs.
ServerConfig(server_name, server_config) ==
    [name |-> server_config.name,
     version |-> "1.0.0",
     capabilities |-> server_config.capabilities,
     endpoints |-> server_config.endpoints,
     authentication |-> [type |-> "api_key", required |-> TRUE],
     mcp_protocol |-> [version |-> "2024-11-05", transport |-> "stdio",
                       capabilities |-> [tools |-> TRUE, resources |-> TRUE,
                                         prompts |-> TRUE, logging |-> TRUE]],
     tools |-> get_server_tools(server_name),
     resources |-> get_server_resources(server_name),
     prompts |-> get_server_prompts(server_name)]

\* The file name without the server's name in it.
ConfigPathShared(server_name) == <<"mcp-configs", "mcp_config.json">>

ConfigPath(server_name) == <<"mcp-configs", server_name \o "_mcp_config.json">>
AnalysisPath == <<"deployment_analysis.json">>
ManifestPath == <<"mcp_ecosystem_manifest.json">>
VercelPath == <<"vercel.json">>
NetlifyPath == <<"netlify.toml">>

\* The deployment_analysis dict of create_deployment_analysis.
DeploymentAnalysis ==
    [vercel |->
        [pros |-> <<"Excellent Next.js support (perfect for React apps)",
                    "Serverless functions with zero config",
                    "Edge functions for global performance",
                    "Built-in analytics and monitoring",
                    "GitHub integration with automatic deployments",
                    "Preview deployments for every PR",
                    "Excellent developer experience",
                    "Support for monorepos",
                    "Built-in image optimization",
                    "Edge caching and CDN">>,
         cons |-> <<"More expensive for high-traffic applications",
                    "Vendor lock-in to Vercel ecosystem",
                    "Limited database options",
                    "Cold starts for serverless functions",
                    "Less control over infrastructure">>,
         best_for |-> <<"React/Next.js applications",
                        "JAMstack applications",
                        "Static sites with dynamic features",
                        "API routes and serverless functions",
                        "Developer-focused projects">>,
         pricing |-> [hobby |-> "Free (with limits)",
                      pro |-> "$20/month per team member",
                      enterprise |-> "Custom pricing"]],
     netlify |->
        [pros |-> <<"Excellent for static sites and JAMstack",
                    "Built-in form handling",
                    "Split testing capabilities",
                    "Edge functions (Netlify Functions)",
                    "Git integration with automatic deployments",
                    "Preview deployments",
                    "Built-in CDN",
                    "Good free tier",
                    "Easy custom domain setup",
                    "Built-in analytics">>,
         cons |-> <<"Less support for complex server-side applications",
                    "Limited database integration",
                    "Less flexible than Vercel for full-stack apps",
                    "Cold starts for functions",
                    "Less advanced than Vercel for React apps">>,
         best_for |-> <<"Static sites and JAMstack",
                        "Documentation sites",
                        "Marketing websites",
                        "Simple web applications",
                        "Form-based applications">>,
         pricing |-> [starter |-> "Free (with limits)",
                      pro |-> "$19/month per team member",
                      business |-> "$99/month per team member",
                      enterprise |-> "Custom pricing"]],
     recommendation |->
        [primary |-> "Vercel",
         reasoning |-> <<"Your ecosystem is heavily React/Next.js focused",
                         "IZA OS and Claude Flow likely use React components",
                         "Better support for complex applications",
                         "Superior developer experience",
                         "Better integration with modern tooling",
                         "More suitable for AI/ML applications">>,
         fallback |-> "Netlify",
         fallback_reasoning |-> <<"Good alternative for simpler deployments",
                                  "Better pricing for basic use cases",
                                  "Excellent for documentation and marketing sites">>]]

\* The manifest dict of create_mcp_integration_manifest, built from the
\* integrator's fields and the instant read from the clock.
\* The counts written as literals instead of computed.
ManifestTotalsLiteral(connections, patterns, servers, now) ==
    [name |-> "Worldwidebro MCP Ecosystem",
     version |-> "1.0.0",
     created_at |-> now,
     total_connections |-> Len(ConnectionList),
     total_patterns |-> Len(PatternList),
     servers |-> ServerKeys(servers)]

ManifestTotals(connections, patterns, servers, now) ==
    [name |-> "Worldwidebro MCP Ecosystem",
     version |-> "1.0.0",
     created_at |-> now,
     total_connections |-> Len(connections),
     total_patterns |-> Len(patterns),
     servers |-> ServerKeys(servers)]

ManifestConnection(conn) ==
    [name |-> conn.name, source |-> conn.source, target |-> conn.target,
     protocol |-> conn.protocol, endpoints |-> conn.endpoints,
     authentication |-> conn.authentication, capabilities |-> conn.capabilities,
     status |-> conn.status]

ManifestPattern(pattern) ==
    [name |-> pattern.name, description |-> pattern.description,
     source_components |-> pattern.source_components,
     target_components |-> pattern.target_components,
     data_flow |-> pattern.data_flow, trigger_events |-> pattern.trigger_events,
     response_handling |-> pattern.response_handling]

\* The two platform names the other way round.
ManifestDeploymentSwapped ==
    [recommended_platform |-> "Netlify",
     reasoning |-> "Better support for React/Next.js applications and AI/ML workflows",
     alternative |-> "Vercel",
     configuration_files |-> <<"vercel.json", "netlify.toml", "package.json", "next.config.js">>]

ManifestDeployment ==
    [recommended_platform |-> "Vercel",
     reasoning |-> "Better support for React/Next.js applications and AI/ML workflows",
     alternative |-> "Netlify",
     configuration_files |-> <<"vercel.json", "netlify.toml", "package.json", "next.config.js">>]

Manifest(connections, patterns, servers, now) ==
    [mcp_ecosystem |-> ManifestTotals(connections, patterns, servers, now),
     connections |-> [i \in 1..Len(connections) |-> ManifestConnection(connections[i])],
     patterns |-> [i \in 1..Len(patterns) |-> ManifestPattern(patterns[i])],
     deployment |-> ManifestDeployment]

\* The routes of vercel_config: src "/api/<prefix>/(.*)" and dest
\* "/<backing path>/$1", each as the sequence of its path segments.
VercelRoutes ==
    << [src |-> <<"api", "iza-os", "(.*)">>,
        dest |-> <<"iza-os-integrated", "00-meta", "api", "$1">>],
       [src |-> <<"api", "activepieces", "(.*)">>,
        dest |-> <<"worldwidebro-repositories", "activepieces", "packages", "server", "api", "$1">>],
       [src |-> <<"api", "claude-flow", "(.*)">>,
        dest |-> <<"iza-os-integrated", "30-models", "claude-flow", "api", "$1">>],
       [src |-> <<"api", "github", "(.*)">>,
        dest |-> <<"worldwidebro-integration", "api", "$1">>] >>

VercelConfig ==
    [version |-> 2,
     builds |-> << [src |-> "iza-os-integrated/50-apps/*/package.json", use |-> "@vercel/next"],
                   [src |-> "worldwidebro-repositories/activepieces/packages/server/api/package.json",
                    use |-> "@vercel/node"] >>,
     routes |-> VercelRoutes,
     env |-> [MCP_SERVER_URL |-> "https://your-domain.vercel.app",
              ACTIVEPIECES_API_KEY |-> "@activepieces_api_key",
              GITHUB_TOKEN |-> "@github_token",
              ANTHROPIC_API_KEY |-> "@anthropic_api_key"],
     functions |-> << [glob |-> "iza-os-integrated/00-meta/api/*.js", maxDuration |-> 30],
                      [glob |-> "worldwidebro-repositories/activepieces/packages/server/api/*.js",
                       maxDuration |-> 60] >>]

\* The [[redirects]] tables of the netlify_config text: from "/api/<prefix>/*"
\* and to "/<backing path>/:splat", each as the sequence of its path segments.
NetlifyRedirects ==
    << [from |-> <<"api", "iza-os", "*">>,
        to |-> <<"iza-os-integrated", "00-meta", "api", ":splat">>, status |-> 200],
       [from |-> <<"api", "activepieces", "*">>,
        to |-> <<"worldwidebro-repositories", "activepieces", "packages", "server", "api", ":splat">>,
        status |-> 200],
       [from |-> <<"api", "claude-flow", "*">>,
        to |-> <<"iza-os-integrated", "30-models", "claude-flow", "api", ":splat">>, status |-> 200],
       [from |-> <<"api", "github", "*">>,
        to |-> <<"worldwidebro-integration", "api", ":splat">>, status |-> 200] >>

NetlifyConfig ==
    [build |-> [publish |-> "dist", command |-> "npm run build",
                environment |-> [NODE_VERSION |-> "18",
                                 MCP_SERVER_URL |-> "https://your-domain.netlify.app"]],
     redirects |-> NetlifyRedirects,
     functions |-> [directory |-> "netlify/functions", node_bundler |-> "esbuild"],
     headers |-> << [for |-> "/api/*",
                     values |-> <<"Access-Control-Allow-Origin", "Access-Control-Allow-Headers",
                                  "Access-Control-Allow-Methods">>] >>]

\* --------------------------------------------------------- filesystem
BaseDir == << >>
ConfigDir == <<"mcp-configs">>
Parent(path) == SubSeq(path, 1, Len(path) - 1)

\* Path.mkdir(exist_ok=True), parents not requested: raises when the
\* directory is missing and so is its parent.
MkdirFails(d, dir) == dir \notin d /\ Parent(dir) \notin d
Mkdir(d, dir) == d \cup {dir}

\* open(path, 'w') followed by json.dump / f.write
WriteFile(f, path, doc) ==
    [p \in DOMAIN f \cup {path} |-> IF p = path THEN doc ELSE f[p]]

LogEntry(d, path, ok) == [path |-> path, ok |-> ok, parent_exists |-> Parent(path) \in d]

\* ------------------------------------------------------- control flow
\* Where control goes after a call made at position `at`: a step of
\* run_integration moves on to the next statement, and an exception leaves
\* run_integration (nothing in it catches); a call made by the client
\* returns to the client.
AfterCallSwallowed(at, ok, next) ==
    IF at = "idle" THEN "idle" ELSE next

AfterCall(at, ok, next) ==
    IF at = "idle" THEN "idle" ELSE IF ok THEN next ELSE "idle"

StatusAfter(at, ok, st) ==
    IF at = "idle" \/ ok THEN st ELSE "raised"

Log(at, log, entries) == IF at = "idle" THEN log ELSE log \o entries

NoSummary == [printed |-> FALSE]

Init ==
    /\ mcp_servers = InitServers
    /\ mcp_connections = << >>
    /\ mcp_patterns = << >>
    /\ dirs \in {{BaseDir}, {}}
    /\ files = << >>
    /\ clock = 0
    /\ pc = "idle"
    /\ status = "none"
    /\ sink_log = << >>
    /\ summary = NoSummary
    /\ add_result = "none"
    /\ adds = 0
    /\ http_log = << >>

\* __init__: a new integrator over the same filesystem (main() run again).
Construct ==
    /\ pc = "idle"
    /\ mcp_servers' = InitServers
    /\ mcp_connections' = << >>
    /\ mcp_patterns' = << >>
    /\ status' = "none"
    /\ sink_log' = << >>
    /\ summary' = NoSummary
    /\ UNCHANGED <<http_log, dirs, files, clock, pc, add_result, adds>>

\* One write to the artifact sink: ok is the outcome the environment gives.
SinkWrite(path, doc, ok, next) ==
    /\ ok => Parent(path) \in dirs
    /\ files' = IF ok THEN WriteFile(files, path, doc) ELSE files
    /\ sink_log' = Log(pc, sink_log, <<LogEntry(dirs, path, ok)>>)
    /\ pc' = AfterCall(pc, ok, next)
    /\ status' = StatusAfter(pc, ok, status)

\* run_integration, entry: the first print.
\* The two calls that build the relationship model left out.
StartRunSkipping ==
    /\ pc = "idle"
    /\ pc' = "configs"
    /\ status' = "running"
    /\ sink_log' = << >>
    /\ summary' = NoSummary
    /\ UNCHANGED <<http_log, mcp_servers, mcp_connections, mcp_patterns, dirs, files, clock,
                   add_result, adds>>

StartRun ==
    /\ pc = "idle"
    /\ pc' = "connections"
    /\ status' = "running"
    /\ sink_log' = << >>
    /\ summary' = NoSummary
    /\ UNCHANGED <<http_log, mcp_servers, mcp_connections, mcp_patterns, dirs, files, clock,
                   add_result, adds>>

\* The list appended to instead of replaced.
create_mcp_connections_accumulating ==
    /\ pc \in {"idle", "connections"}
    /\ mcp_connections' = mcp_connections \o ConnectionList
    /\ pc' = AfterCall(pc, TRUE, "patterns")
    /\ UNCHANGED <<http_log, mcp_servers, mcp_patterns, dirs, files, clock, status, sink_log,
                   summary, add_result, adds>>

create_mcp_connections ==
    /\ pc \in {"idle", "connections"}
    /\ mcp_connections' = ConnectionList
    /\ pc' = AfterCall(pc, TRUE, "patterns")
    /\ UNCHANGED <<http_log, mcp_servers, mcp_patterns, dirs, files, clock, status, sink_log,
                   summary, add_result, adds>>

create_mcp_patterns ==
    /\ pc \in {"idle", "patterns"}
    /\ mcp_patterns' = PatternList
    /\ pc' = AfterCall(pc, TRUE, "configs")
    /\ UNCHANGED <<http_log, mcp_servers, mcp_connections, dirs, files, clock, status, sink_log,
                   summary, add_result, adds>>

\* The loop of create_mcp_server_configs. Iterations 1..k-1 write their file
\* and iteration k, if there is one, raises at open(); every iteration first
\* makes sure of the mcp-configs directory, which raises when base_path is
\* missing.
ConfigFiles(f, servers, k) ==
    LET written == {ConfigPath(servers[j].id) : j \in 1..(k - 1)}
        docOf(p) == LET j == CHOOSE j \in 1..(k - 1) : ConfigPath(servers[j].id) = p
                    IN  ServerConfig(servers[j].id, servers[j])
    IN  [p \in DOMAIN f \cup written |-> IF p \in written THEN docOf(p) ELSE f[p]]

ConfigLog(servers, k) ==
    LET last == IF k <= Len(servers) THEN k ELSE Len(servers)
    IN  [j \in 1..last |-> [path |-> ConfigPath(servers[j].id), ok |-> j < k,
                            parent_exists |-> TRUE]]

create_mcp_server_configs ==
    /\ pc \in {"idle", "configs"}
    /\ IF mcp_servers # << >> /\ MkdirFails(dirs, ConfigDir)
       THEN /\ pc' = AfterCall(pc, FALSE, "analysis")
            /\ status' = StatusAfter(pc, FALSE, status)
            /\ UNCHANGED <<dirs, files, sink_log>>
       ELSE \E k \in 1..(Len(mcp_servers) + 1) :
            /\ dirs' = IF mcp_servers # << >> THEN Mkdir(dirs, ConfigDir) ELSE dirs
            /\ files' = ConfigFiles(files, mcp_servers, k)
            /\ sink_log' = Log(pc, sink_log, ConfigLog(mcp_servers, k))
            /\ pc' = AfterCall(pc, k > Len(mcp_servers), "analysis")
            /\ status' = StatusAfter(pc, k > Len(mcp_servers), status)
    /\ UNCHANGED <<http_log, mcp_servers, mcp_connections, mcp_patterns, clock, summary,
                   add_result, adds>>

create_deployment_analysis ==
    /\ pc \in {"idle", "analysis"}
    /\ \E ok \in BOOLEAN : SinkWrite(AnalysisPath, DeploymentAnalysis, ok, "manifest")
    /\ UNCHANGED <<http_log, mcp_servers, mcp_connections, mcp_patterns, dirs, clock, summary,
                   add_result, adds>>

\* create_mcp_integration_manifest when its write has the outcome ok.
WriteManifest(ok) ==
    /\ pc \in {"idle", "manifest"}
    /\ SinkWrite(ManifestPath,
                 Manifest(mcp_connections, mcp_patterns, mcp_servers, clock),
                 ok, "vercel")
    /\ UNCHANGED <<http_log, mcp_servers, mcp_connections, mcp_patterns, dirs, clock, summary,
                   add_result, adds>>

create_mcp_integration_manifest == \E ok \in BOOLEAN : WriteManifest(ok)

create_vercel_config ==
    /\ pc \in {"idle", "vercel"}
    /\ \E ok \in BOOLEAN : SinkWrite(VercelPath, VercelConfig, ok, "netlify")
    /\ UNCHANGED <<http_log, mcp_servers, mcp_connections, mcp_patterns, dirs, clock, summary,
                   add_result, adds>>

create_netlify_config ==
    /\ pc \in {"idle", "netlify"}
    /\ \E ok \in BOOLEAN : SinkWrite(NetlifyPath, NetlifyConfig, ok, "summary")
    /\ UNCHANGED <<http_log, mcp_servers, mcp_connections, mcp_patterns, dirs, clock, summary,
                   add_result, adds>>

\* run_integration, tail: the prints after the last write.
PrintSummary ==
    /\ pc = "summary"
    /\ summary' = [printed |-> TRUE,
                   connections |-> Len(mcp_connections),
                   patterns |-> Len(mcp_patterns),
                   servers |-> Len(mcp_servers),
                   primary |-> DeploymentAnalysis.recommendation.primary,
                   alternative |-> DeploymentAnalysis.recommendation.fallback]
    /\ status' = "completed"
    /\ pc' = "idle"
    /\ UNCHANGED <<http_log, mcp_servers, mcp_connections, mcp_patterns, dirs, files, clock,
                   sink_log, add_result, adds>>

\* Time passes.
Tick ==
    /\ clock < MaxClock
    /\ clock' = clock + 1
    /\ UNCHANGED <<http_log, mcp_servers, mcp_connections, mcp_patterns, dirs, files,
                   pc, status, sink_log, summary, add_result, adds>>

Next ==
    \/ StartRun
    \/ create_mcp_connections
    \/ create_mcp_patterns
    \/ create_mcp_server_configs
    \/ create_deployment_analysis
    \/ create_mcp_integration_manifest
    \/ create_vercel_config
    \/ create_netlify_config
    \/ PrintSummary
    \/ Tick
    \/ Construct

\* Every public method of the integrator, called in any order.
Spec == Init /\ [][Next]_vars

\* The program as main() drives it: integrators are constructed and
\* run_integration is called, any number of times; no method is called alone.
RunStep ==
    /\ pc # "idle"
    /\ \/ create_mcp_connections
       \/ create_mcp_patterns
       \/ create_mcp_server_configs
       \/ create_deployment_analysis
       \/ create_mcp_integration_manifest
       \/ create_vercel_config
       \/ create_netlify_config
       \/ PrintSummary

NextRuns == StartRun \/ RunStep \/ Tick \/ Construct

SpecRuns == Init /\ [][NextRuns]_vars

\* ------------------------------------------------- client-side additions
\* The integrator has no add operation: a client adds a connection by
\* constructing an MCPConnection and appending it to the public list, and a
\* server by assigning into the public dict. Neither step validates anything.
AddInputs ==
    { [source |-> "ghost", target |-> "iza_os_core", endpoints |-> <<"/api/v1/config">>],
      [source |-> "claude_flow", target |-> "iza_os_core", endpoints |-> <<"/api/v1/config">>] }

AddConnection(source, target, endpoints) ==
    /\ pc = "idle"
    /\ adds < MaxAdds
    /\ mcp_connections' = Append(mcp_connections,
                                 MCPConnection("Added", source, target, "mcp",
                                               endpoints, "api_key", << >>))
    /\ add_result' = "stored"
    /\ adds' = adds + 1
    /\ UNCHANGED <<http_log, mcp_servers, mcp_patterns, dirs, files, clock, pc, status,
                   sink_log, summary>>

ExtraServers ==
    { [id |-> "apple_notes", name |-> "Apple Notes MCP Server",
       path |-> <<"apple-notes-mcp">>,
       capabilities |-> <<"notes">>,
       endpoints |-> <<"/health">>] }

RegisterServer(entry) ==
    /\ pc = "idle"
    /\ adds < MaxAdds
    /\ ~HasServer(mcp_servers, entry.id)
    /\ mcp_servers' = Append(mcp_servers, entry)
    /\ add_result' = "stored"
    /\ adds' = adds + 1
    /\ UNCHANGED <<http_log, mcp_connections, mcp_patterns, dirs, files, clock, pc, status,
                   sink_log, summary>>

ClientAdd ==
    \/ \E c \in AddInputs : AddConnection(c.source, c.target, c.endpoints)
    \/ \E entry \in ExtraServers : RegisterServer(entry)

NextOpen == NextRuns \/ ClientAdd

SpecOpen == Init /\ [][NextOpen]_vars

\* ------------------------------------------------------ liveness probe
\* apple_notes_mcp_server.py, a process of its own. A response is its status
\* line, its headers and the chunks written to wfile; a JSON body is the
\* dict handed to json.dumps.
ProbePaths == {"/health", "/", "/health/", "/health?check=1", "/api/v1/status"}

\* The else branch left out: every path is answered as /health is.
ResponseAlwaysHealthy(path) ==
    [status |-> 200,
     headers |-> <<[name |-> "Content-type", value |-> "application/json"]>>,
     body |-> <<[status |-> "healthy", server |-> "apple-notes-mcp"]>>]

\* What GenericMCPHandler.do_GET sends for a request path.
Response(path) ==
    IF path = "/health"
    THEN [status |-> 200,
          headers |-> <<[name |-> "Content-type", value |-> "application/json"]>>,
          body |-> <<[status |-> "healthy", server |-> "apple-notes-mcp"]>>]
    ELSE [status |-> 404, headers |-> << >>, body |-> << >>]

do_GET(path) ==
    /\ Len(http_log) < MaxRequests
    /\ http_log' = Append(http_log, [path |-> path, response |-> Response(path)])
    /\ UNCHANGED <<mcp_servers, mcp_connections, mcp_patterns, dirs, files, clock,
                   pc, status, sink_log, summary, add_result, adds>>

\* serve_forever: one request after the other.
NextProbe == \E path \in ProbePaths : do_GET(path)

SpecProbe == Init /\ [][NextProbe]_vars

TypeOK ==
    /\ pc \in {"idle", "connections", "patterns", "configs", "analysis", "manifest",
                "vercel", "netlify", "summary"}
    /\ status \in {"none", "running", "completed", "raised"}
    /\ clock \in 0..MaxClock

\* ------------------------------------------------------------- claims
\* The artifacts of one run of run_integration, for the registry `servers`.
RunArtifacts(servers) ==
    {ConfigPath(servers[j].id) : j \in 1..Len(servers)}
        \cup {AnalysisPath, ManifestPath, VercelPath, NetlifyPath}

Attempted == {sink_log[i].path : i \in 1..Len(sink_log)}
Written == {sink_log[i].path : i \in {j \in 1..Len(sink_log) : sink_log[j].ok}}
Failed == {sink_log[i].path : i \in {j \in 1..Len(sink_log) : ~sink_log[j].ok}}
RunEnded == pc = "idle" /\ status \in {"completed", "raised"}

\* C1: partial success. When a run of run_integration in which the write of
\* some artifact failed has ended, it has ended without an exception, every
\* artifact of the run was attempted, and all but the failed ones were written.
C1_PartialSuccess ==
    (RunEnded /\ Failed # {}) =>
        /\ status = "completed"
        /\ Attempted = RunArtifacts(mcp_servers)
        /\ Written = RunArtifacts(mcp_servers) \ Failed

\* C2: run_integration reports completion (prints its summary and returns)
\* only when every artifact of the run was written: no write of the run failed.
C2_SuccessOnlyIfAllWritten ==
    (status = "completed" \/ summary.printed) =>
        /\ Failed = {}
        /\ Written = RunArtifacts(mcp_servers)

\* A run whose manifest write failed, after the per-server configs and the
\* analysis were written, has ended, and reported nothing.
C2_Witness ==
    /\ RunEnded
    /\ Failed = {ManifestPath}
    /\ AnalysisPath \in Written
    /\ status = "raised"
    /\ ~summary.printed

\* str.split(sep) and str.strip() on a string given as its lexemes.
RECURSIVE Split(_, _)
Split(str, sep) ==
    IF \E i \in 1..Len(str) : str[i] = sep
    THEN LET i == CHOOSE i \in 1..Len(str) :
                      str[i] = sep /\ \A j \in 1..(i - 1) : str[j] # sep
         IN  <<SubSeq(str, 1, i - 1)>> \o Split(SubSeq(str, i + 1, Len(str)), sep)
    ELSE <<str>>

RECURSIVE Strip(_)
Strip(str) ==
    IF str # << >> /\ Head(str) = " " THEN Strip(Tail(str))
    ELSE IF str # << >> /\ str[Len(str)] = " " THEN Strip(SubSeq(str, 1, Len(str) - 1))
    ELSE str

\* The tokens of a data_flow chain: split on the arrow, blanks trimmed.
Tokens(data_flow) ==
    LET parts == Split(data_flow, "->")
    IN  [i \in 1..Len(parts) |-> Strip(parts[i])]

\* A token names a server when it is one identifier that is a registry key.
IsServerToken(tok) == Len(tok) = 1 /\ HasServer(mcp_servers, tok[1])

DataFlowWellFormed(pattern) ==
    LET toks == Tokens(pattern.data_flow)
    IN  /\ Len(toks) >= 2
        /\ \A i \in 1..Len(toks) : IsServerToken(toks[i])
        /\ toks[1] \in {<<c>> : c \in Range(pattern.source_components)}
        /\ toks[Len(toks)] \in {<<c>> : c \in Range(pattern.target_components)}

\* C3: every pattern the integrator holds has a data_flow chain of at least
\* two tokens, all of them registry keys, that starts in the pattern's
\* source_components and ends in its target_components.
C3_DataFlowChains ==
    \A i \in 1..Len(mcp_patterns) : DataFlowWellFormed(mcp_patterns[i])

\* The ids a connection and a pattern refer to.
ConnectionResolves(conn) ==
    HasServer(mcp_servers, conn.source) /\ HasServer(mcp_servers, conn.target)

PatternResolves(pattern) ==
    /\ pattern.source_components # << >>
    /\ pattern.target_components # << >>
    /\ \A id \in Range(pattern.source_components) \cup Range(pattern.target_components) :
          HasServer(mcp_servers, id)

\* C4: referential integrity. Every connection held, and every connection of
\* a manifest on disk, has a registered source and target; every pattern
\* held, and every pattern of a manifest on disk, has non-empty component
\* lists of registered ids.
C4_ReferentialIntegrity ==
    /\ \A i \in 1..Len(mcp_connections) : ConnectionResolves(mcp_connections[i])
    /\ \A i \in 1..Len(mcp_patterns) : PatternResolves(mcp_patterns[i])
    /\ ManifestPath \in DOMAIN files =>
          /\ \A i \in 1..Len(files[ManifestPath].connections) :
                ConnectionResolves(files[ManifestPath].connections[i])
          /\ \A i \in 1..Len(files[ManifestPath].patterns) :
                PatternResolves(files[ManifestPath].patterns[i])

\* The integrator holds its connections and patterns and a manifest listing
\* them is on disk.
C4_Witness ==
    /\ Len(mcp_connections) = 5
    /\ Len(mcp_patterns) = 4
    /\ ManifestPath \in DOMAIN files
    /\ Len(files[ManifestPath].connections) = 5
    /\ Len(files[ManifestPath].patterns) = 4

\* C5: every endpoint of a connection held is declared by the connection's
\* source server or by its target server.
C5_EndpointsDeclared ==
    \A i \in 1..Len(mcp_connections) :
        LET conn == mcp_connections[i]
        IN  /\ ConnectionResolves(conn)
            /\ Range(conn.endpoints) \subseteq
                  Range(ServerOf(mcp_servers, conn.source).endpoints)
                      \cup Range(ServerOf(mcp_servers, conn.target).endpoints)

\* The five connections are held, and one of them lists an endpoint that only
\* its target declares.
C5_Witness ==
    /\ Len(mcp_connections) = 5
    /\ \E i \in 1..Len(mcp_connections) :
          \E e \in Range(mcp_connections[i].endpoints) :
              /\ e \notin Range(ServerOf(mcp_servers, mcp_connections[i].source).endpoints)
              /\ e \in Range(ServerOf(mcp_servers, mcp_connections[i].target).endpoints)

\* C6: a connection whose source or target is no registry key is rejected
\* when it is added: UnknownServerError is raised and the connections held
\* stay as they were.
C6_UnknownServerRejected ==
    [][\A c \in AddInputs :
          (/\ AddConnection(c.source, c.target, c.endpoints)
           /\ ~(HasServer(mcp_servers, c.source) /\ HasServer(mcp_servers, c.target)))
          => (mcp_connections' = mcp_connections /\ add_result' = "UnknownServerError")]_vars

\* A document with the manifest's created_at field blanked.
SansTimestamp(doc) ==
    IF "mcp_ecosystem" \in DOMAIN doc
    THEN [doc EXCEPT !.mcp_ecosystem.created_at = 0]
    ELSE doc

NoDuplicates(seq) == \A i, j \in 1..Len(seq) : seq[i] = seq[j] => i = j

\* C7: generation is idempotent. In every run, also a repeated one, once
\* create_mcp_connections (create_mcp_patterns) has returned the integrator
\* holds the same 5 connections (4 patterns), none twice; and a write to a
\* path that already holds an artifact leaves its content as it was, except
\* for the manifest's created_at.
C7_Idempotent ==
    [][/\ pc' \in {"patterns", "configs", "analysis", "manifest", "vercel", "netlify", "summary"}
            => (/\ Len(mcp_connections') = 5
                /\ NoDuplicates(mcp_connections')
                /\ mcp_connections' = ConnectionList)
       /\ pc' \in {"configs", "analysis", "manifest", "vercel", "netlify", "summary"}
            => (/\ Len(mcp_patterns') = 4
                /\ NoDuplicates(mcp_patterns')
                /\ mcp_patterns' = PatternList)
       /\ status' = "completed"
            => (Len(mcp_connections') = 5 /\ Len(mcp_patterns') = 4)
       /\ \A p \in DOMAIN files :
             /\ p \in DOMAIN files'
             /\ SansTimestamp(files'[p]) = SansTimestamp(files[p])]_vars

\* A later run has just rewritten the manifest, at another instant than the
\* one recorded by the run that wrote the netlify.toml now on disk, and the
\* integrator holds connections and patterns once.
C7_Witness ==
    /\ pc = "vercel"
    /\ NetlifyPath \in DOMAIN files
    /\ ManifestPath \in Written
    /\ files[ManifestPath].mcp_ecosystem.created_at = clock
    /\ clock > 0
    /\ Len(mcp_connections) = 5
    /\ Len(mcp_patterns) = 4

\* C8: whenever create_mcp_integration_manifest writes the manifest, its
\* totals are the lengths of its two lists, the lists are the integrator's
\* connections and patterns in order, and servers is the registry's key list.
C8_ManifestCounts ==
    [][WriteManifest(TRUE) =>
         LET m == files'[ManifestPath]
         IN  /\ m.mcp_ecosystem.total_connections = Len(m.connections)
             /\ m.mcp_ecosystem.total_patterns = Len(m.patterns)
             /\ Len(m.connections) = Len(mcp_connections)
             /\ \A i \in 1..Len(mcp_connections) :
                   /\ m.connections[i].name = mcp_connections[i].name
                   /\ m.connections[i].source = mcp_connections[i].source
                   /\ m.connections[i].target = mcp_connections[i].target
                   /\ m.connections[i].protocol = mcp_connections[i].protocol
                   /\ m.connections[i].endpoints = mcp_connections[i].endpoints
                   /\ m.connections[i].authentication = mcp_connections[i].authentication
                   /\ m.connections[i].capabilities = mcp_connections[i].capabilities
                   /\ m.connections[i].status = mcp_connections[i].status
             /\ Len(m.patterns) = Len(mcp_patterns)
             /\ \A i \in 1..Len(mcp_patterns) : m.patterns[i] = mcp_patterns[i]
             /\ Len(m.mcp_ecosystem.servers) = Len(mcp_servers)
             /\ \A i \in 1..Len(mcp_servers) :
                   m.mcp_ecosystem.servers[i] = mcp_servers[i].id]_vars

\* A manifest rendered while the integrator held its connections but no
\* pattern yet is on disk.
C8_Witness ==
    /\ ManifestPath \in DOMAIN files
    /\ files[ManifestPath].mcp_ecosystem.total_connections = 5
    /\ files[ManifestPath].mcp_ecosystem.total_patterns = 0
    /\ files[ManifestPath].patterns = << >>

\* A JSON array, as opposed to null.
IsList(x) == DOMAIN x = 1..Cardinality(DOMAIN x)

ConfigKeys ==
    {"name", "version", "capabilities", "endpoints", "authentication", "mcp_protocol",
     "tools", "resources", "prompts"}

HasKey(map, key) == \E i \in 1..Len(map) : map[i].key = key

KnownIds == Range(ServerKeys(InitServers)) \cup {e.id : e \in ExtraServers}

\* C9: every per-server config on disk has all nine keys, and its tools,
\* resources and prompts are lists, empty for a server the lookup table has
\* no entry for.
C9_ConfigShape ==
    \A id \in KnownIds :
        ConfigPath(id) \in DOMAIN files =>
            LET cfg == files[ConfigPath(id)]
            IN  /\ DOMAIN cfg = ConfigKeys
                /\ IsList(cfg.tools) /\ IsList(cfg.resources) /\ IsList(cfg.prompts)
                /\ ~HasKey(tools_map, id) => cfg.tools = << >>
                /\ ~HasKey(resources_map, id) => cfg.resources = << >>
                /\ ~HasKey(prompts_map, id) => cfg.prompts = << >>

\* The config of a registered server that no lookup table knows is on disk.
C9_Witness ==
    \E e \in ExtraServers :
        /\ HasServer(mcp_servers, e.id)
        /\ ~HasKey(tools_map, e.id) /\ ~HasKey(resources_map, e.id)
        /\ ~HasKey(prompts_map, e.id)
        /\ ConfigPath(e.id) \in DOMAIN files
        /\ files[ConfigPath(e.id)].tools = << >>

\* The rules (prefix pattern, destination) of a descriptor match the
\* registry: one rule per registered id s, from /api/s/<wildcard> to a
\* destination under the server's declared path, and no other rule.
IsPrefixOf(a, b) == Len(a) <= Len(b) /\ SubSeq(b, 1, Len(a)) = a

RulesFromRegistry(froms, tos, wildcard) ==
    /\ \A j \in 1..Len(mcp_servers) :
          /\ Cardinality({i \in 1..Len(froms) :
                            froms[i] = <<"api", mcp_servers[j].id, wildcard>>}) = 1
          /\ \A i \in 1..Len(froms) :
                froms[i] = <<"api", mcp_servers[j].id, wildcard>>
                    => IsPrefixOf(mcp_servers[j].path, tos[i])
    /\ \A i \in 1..Len(froms) :
          \E j \in 1..Len(mcp_servers) : froms[i] = <<"api", mcp_servers[j].id, wildcard>>

\* C10: the route rules of vercel.json and of netlify.toml are those of the
\* registry: exactly one rule /api/<id>/ per registered id, leading under
\* that server's path, and none for any other id.
C10_RoutesFromRegistry ==
    /\ VercelPath \in DOMAIN files =>
          LET routes == files[VercelPath].routes
          IN  RulesFromRegistry([i \in 1..Len(routes) |-> routes[i].src],
                                [i \in 1..Len(routes) |-> routes[i].dest], "(.*)")
    /\ NetlifyPath \in DOMAIN files =>
          LET redirects == files[NetlifyPath].redirects
          IN  RulesFromRegistry([i \in 1..Len(redirects) |-> redirects[i].from],
                                [i \in 1..Len(redirects) |-> redirects[i].to], "*")

\* C11: connection status is never advanced. Every connection the integrator
\* holds has status pending, and so has every connection entry of a manifest
\* on disk.
C11_StatusPending ==
    /\ \A i \in 1..Len(mcp_connections) : mcp_connections[i].status = "pending"
    /\ ManifestPath \in DOMAIN files =>
          \A i \in 1..Len(files[ManifestPath].connections) :
              files[ManifestPath].connections[i].status = "pending"

\* A completed run has written a manifest whose five connection entries
\* carry a status, while the integrator still holds the five connections.
C11_Witness ==
    /\ status = "completed"
    /\ ManifestPath \in Written
    /\ Len(files[ManifestPath].connections) = 5
    /\ \A i \in 1..5 : "status" \in DOMAIN files[ManifestPath].connections[i]
    /\ Len(mcp_connections) = 5

\* C12: a run in which no write failed wrote each of its artifacts exactly
\* once: the writes of the run are one per per-server config and one each for
\* the analysis, the manifest, vercel.json and netlify.toml, and no path
\* occurs twice among them.
C12_OneWritePerArtifact ==
    (status = "completed" /\ Failed = {}) =>
        /\ Len(sink_log) = Len(mcp_servers) + 4
        /\ \A i, j \in 1..Len(sink_log) : sink_log[i].path = sink_log[j].path => i = j
        /\ \A k \in 1..Len(mcp_servers) :
              Cardinality({i \in 1..Len(sink_log) :
                             sink_log[i].path = <<"mcp-configs",
                                                  mcp_servers[k].id \o "_mcp_config.json">>}) = 1
        /\ \A p \in {<<"deployment_analysis.json">>, <<"mcp_ecosystem_manifest.json">>,
                      <<"vercel.json">>, <<"netlify.toml">>} :
              Cardinality({i \in 1..Len(sink_log) : sink_log[i].path = p}) = 1

\* A run has completed after eight successful writes.
C12_Witness ==
    /\ status = "completed"
    /\ pc = "idle"
    /\ Len(sink_log) = 8
    /\ \A i \in 1..Len(sink_log) : sink_log[i].ok

\* C13: directories are created as needed before writing. Whenever a run
\* comes to write an artifact, the directory that is to contain it exists by
\* the time of the write, also when the run started without base_path: the
\* step that writes the per-server configs leaves mcp-configs in existence,
\* the steps that write into base_path find it, and every write the run has
\* attempted found its directory.
C13_DirectoriesExist ==
    [][/\ (pc = "configs" /\ pc' # pc /\ mcp_servers # << >>)
            => (BaseDir \in dirs' /\ ConfigDir \in dirs')
       /\ (pc \in {"analysis", "manifest", "vercel", "netlify"} /\ pc' # pc)
            => BaseDir \in dirs
       /\ \A i \in 1..Len(sink_log') : sink_log'[i].parent_exists]_vars

\* C15: inside run_integration the connections and the patterns are built
\* before anything is written. As soon as a run has attempted a write the
\* integrator holds 5 connections and 4 patterns; the manifest a run has
\* written records 5 and 4, in its totals and in its lists; and the counts
\* of the printed summary are those of that manifest.
C15_ModelBeforeArtifacts ==
    /\ (status \in {"running", "completed", "raised"} /\ sink_log # << >>)
          => (Len(mcp_connections) = 5 /\ Len(mcp_patterns) = 4)
    /\ (status \in {"running", "completed", "raised"} /\ ManifestPath \in Written)
          => LET m == files[ManifestPath]
             IN  /\ m.mcp_ecosystem.total_connections = 5
                 /\ m.mcp_ecosystem.total_patterns = 4
                 /\ Len(m.connections) = 5
                 /\ Len(m.patterns) = 4
    /\ summary.printed
          => /\ ManifestPath \in Written
             /\ summary.connections = files[ManifestPath].mcp_ecosystem.total_connections
             /\ summary.patterns = files[ManifestPath].mcp_ecosystem.total_patterns

\* A run has completed and printed its summary next to the manifest it wrote.
C15_Witness ==
    /\ status = "completed"
    /\ summary.printed
    /\ summary.connections = 5
    /\ summary.patterns = 4
    /\ ManifestPath \in Written
    /\ files[ManifestPath].mcp_ecosystem.total_connections = 5

\* What goes with a platform's display name: its key in the analysis
\* document (the name in lower case) and the name of its descriptor file.
PlatformNames ==
    { [display |-> "Vercel", key |-> "vercel", descriptor |-> "vercel.json"],
      [display |-> "Netlify", key |-> "netlify", descriptor |-> "netlify.toml"] }

HasPlatformEntry(analysis, display) ==
    \E pn \in PlatformNames :
        /\ pn.display = display
        /\ pn.key \in DOMAIN analysis
        /\ {"pros", "cons", "best_for", "pricing"} \subseteq DOMAIN analysis[pn.key]

HasDescriptor(deployment, display) ==
    \E pn \in PlatformNames :
        /\ pn.display = display
        /\ pn.descriptor \in Range(deployment.configuration_files)

\* C16: the deployment recommendation is the same in every run and the same
\* in both documents. Once an analysis and a manifest are on disk, primary
\* equals recommended_platform and fallback equals alternative, the two are
\* different platforms, each has an entry in the analysis and a descriptor
\* among the manifest's configuration_files; a rewritten analysis keeps its
\* recommendation, and a printed summary names the same two platforms.
C16_RecommendationConsistent ==
    [][/\ (AnalysisPath \in DOMAIN files' /\ ManifestPath \in DOMAIN files') =>
            LET rec == files'[AnalysisPath].recommendation
                dep == files'[ManifestPath].deployment
            IN  /\ rec.primary = dep.recommended_platform
                /\ rec.fallback = dep.alternative
                /\ rec.primary # rec.fallback
                /\ \A name \in {rec.primary, rec.fallback} :
                      /\ HasPlatformEntry(files'[AnalysisPath], name)
                      /\ HasDescriptor(dep, name)
       /\ (AnalysisPath \in DOMAIN files) =>
            files'[AnalysisPath].recommendation = files[AnalysisPath].recommendation
       /\ (ManifestPath \in DOMAIN files) =>
            files'[ManifestPath].deployment = files[ManifestPath].deployment
       /\ (summary'.printed /\ AnalysisPath \in DOMAIN files') =>
            /\ summary'.primary = files'[AnalysisPath].recommendation.primary
            /\ summary'.alternative = files'[AnalysisPath].recommendation.fallback]_vars

\* A run has completed with both the analysis and the manifest written, and
\* has printed its recommendation.
C16_Witness ==
    /\ status = "completed"
    /\ AnalysisPath \in Written
    /\ ManifestPath \in Written
    /\ summary.printed
    /\ files[AnalysisPath].recommendation.primary = "Vercel"
    /\ files[ManifestPath].deployment.alternative = "Netlify"

\* C14: the liveness probe answers every GET by its path alone, whatever it
\* served before: path /health gets 200 and the JSON body
\* {"status": "healthy", "server": "apple-notes-mcp"}, any other path gets
\* 404 and no body.
C14_ProbeByPathAlone ==
    \A i \in 1..Len(http_log) :
        LET path == http_log[i].path
            response == http_log[i].response
        IN  /\ path = "/health" =>
                  /\ response.status = 200
                  /\ response.body = <<[status |-> "healthy", server |-> "apple-notes-mcp"]>>
            /\ path # "/health" =>
                  /\ response.status = 404
                  /\ response.body = << >>

\* The probe has answered /health with 200 between two requests for other
\* paths, both answered 404.
C14_Witness ==
    /\ Len(http_log) = 3
    /\ http_log[1].path = "/health/" /\ http_log[1].response.status = 404
    /\ http_log[2].path = "/health" /\ http_log[2].response.status = 200
    /\ http_log[3].path = "/health?check=1" /\ http_log[3].response.status = 404

====
